---- MODULE Spec2Model ----
(***************************************************************************)
(* MathLib (lib/mathlib.cpp): classification, conversion, arithmetic and   *)
(* comparison of numeric literal tokens.                                   *)
(*                                                                         *)
(* A character is a one-character string and a std::string is a sequence   *)
(* of characters.  Positions are 0-based as in the source: s[n] of the     *)
(* source is At(s, n).                                                     *)
(***************************************************************************)
EXTENDS Integers, Sequences, FiniteSets, TLC

VARIABLES
    first,             \* the token handed to a call (const std::string &first / s / str)
    second,            \* the second operand of a binary call, <<>> for unary calls
    action,            \* the operator character given to calculate, "none" otherwise
    uninit,            \* what the uninitialised `double ret` of toDoubleNumber holds
    pc,                \* position of the caller / of the isInt scan
    out,               \* what the last call returned
    n,                 \* isInt: the scan position `unsigned long n`
    Mode,              \* isInt: `Representation Mode`
    bStartsWithDigit   \* isInt: the flag of the eDefault branch

vars == <<first, second, action, uninit, pc, out, n, Mode, bStartsWithDigit>>

(***************************************************************************)
(* Bounds of the model.                                                    *)
(***************************************************************************)
\* longest token of the one-token specifications
MaxLen == 3
\* longest operand of the two-token specification
MaxPairLen == 2
\* largest decimal exponent a converted token may carry
MaxExp == 2
\* most '0' digits in the integer or fraction part of a zero spelling
MaxZeros == 2

(***************************************************************************)
(* Characters.                                                             *)
(***************************************************************************)
\* the character s[s.size()] of a std::string
NUL == "NUL"

\* std::isspace in the "C" locale (vertical tab has no TLA+ escape)
Space == {" ", "\t", "\n", "\r", "\f"}

\* std::isdigit
Digit == {"0", "1", "2", "3", "4", "5", "6", "7", "8", "9"}

\* std::isxdigit
XDigit == Digit \cup {"a", "b", "c", "d", "e", "f", "A", "B", "C", "D", "E", "F"}

\* std::tolower(c) == 'u' || std::tolower(c) == 'l'
SuffixUL == {"u", "U", "l", "L"}

isOctalDigit(c) == c \in {"0", "1", "2", "3", "4", "5", "6", "7"}

OctDigit == {c \in Digit : isOctalDigit(c)}

At(s, i) == IF i < Len(s) THEN s[i + 1] ELSE NUL

\* s.find(sub, 0) != std::string::npos
Contains(s, sub) ==
    \E i \in 1..(Len(s) - Len(sub) + 1) : SubSeq(s, i, i + Len(sub) - 1) = sub

\* s.compare(pos, len, sub) == 0, for pos <= s.size()
CompareAt(s, pos, len, sub) ==
    LET last == IF pos + len <= Len(s) THEN pos + len ELSE Len(s)
    IN SubSeq(s, pos + 1, last) = sub

\* while (cls(s[i])) ++i;
RECURSIVE SkipWhile(_, _, _)
SkipWhile(s, i, cls) ==
    IF i < Len(s) /\ s[i + 1] \in cls THEN SkipWhile(s, i + 1, cls) ELSE i

(***************************************************************************)
(* Literal classifier.                                                     *)
(***************************************************************************)
isFloat(s) ==
    \/ Contains(s, <<".">>)
    \/ Contains(s, <<"E", "-">>)
    \/ Contains(s, <<"e", "-">>)

isNegative(s) == At(s, SkipWhile(s, 0, Space)) = "-"

isOct(str) ==
    LET sign == At(str, 0) \in {"-", "+"}
    IN /\ At(str, IF sign THEN 1 ELSE 0) = "0"
       /\ (Len(str) = 1 \/ isOctalDigit(At(str, IF sign THEN 2 ELSE 1)))
       /\ ~isFloat(str)

\* isHex that looks at the '0' only and not at the 'x' after it
isHexNoX(str) ==
    LET sign == At(str, 0) \in {"-", "+"}
    IN CompareAt(str, IF sign THEN 1 ELSE 0, 1, <<"0">>)

isHex(str) ==
    LET sign == At(str, 0) \in {"-", "+"}
        pos == IF sign THEN 1 ELSE 0
    IN \/ CompareAt(str, pos, 2, <<"0", "x">>)
       \/ CompareAt(str, pos, 2, <<"0", "X">>)

\* the `determine type` step of isInt
isIntMode(s) ==
    IF Contains(s, <<"E">>) THEN "eScientific"
    ELSE IF isHex(s) THEN "eHex"
    ELSE IF isOct(s) THEN "eOctal"
    ELSE "eDefault"

\* the tail of isInt: eat up whitespace, return(n >= s.length())
isIntAtEnd(s, i) == SkipWhile(s, i, Space) >= Len(s)

\* the eScientific branch of isInt, from position i
isIntScientific(s, i) ==
    LET d == SkipWhile(s, i, Digit)
    IN IF At(s, d) \in {"e", "E"}
       THEN LET e == d + 1
                p == IF At(s, e) = "+" THEN e + 1 ELSE e
            IN IF At(s, p) = "-" THEN FALSE
               ELSE isIntAtEnd(s, SkipWhile(s, p, Digit))
       ELSE isIntAtEnd(s, d)

isInt(s) ==
    IF Contains(s, <<".">>) THEN FALSE
    ELSE IF Contains(s, <<"E", "-">>) \/ Contains(s, <<"e", "-">>) THEN FALSE
    ELSE LET w == SkipWhile(s, 0, Space)
             m == isIntMode(s)
             i == IF At(s, w) \in {"-", "+"} THEN w + 1 ELSE w
         IN CASE m = "eScientific" -> isIntScientific(s, i)
              [] m = "eHex" ->
                    isIntAtEnd(s, SkipWhile(s, SkipWhile(s, i + 2, XDigit), SuffixUL))
              [] m = "eOctal" ->
                    isIntAtEnd(s, SkipWhile(s, SkipWhile(s, i + 1, OctDigit), SuffixUL))
              [] OTHER ->
                    LET d == SkipWhile(s, i, Digit)
                    IN IF d = i THEN FALSE
                       ELSE isIntAtEnd(s, SkipWhile(s, d, SuffixUL))

(***************************************************************************)
(* Numeric converter: the integer path.                                    *)
(***************************************************************************)
DigitVal(c) ==
    CASE c = "0" -> 0 [] c = "1" -> 1 [] c = "2" -> 2 [] c = "3" -> 3
      [] c = "4" -> 4 [] c = "5" -> 5 [] c = "6" -> 6 [] c = "7" -> 7
      [] c = "8" -> 8 [] c = "9" -> 9
      [] c \in {"a", "A"} -> 10 [] c \in {"b", "B"} -> 11
      [] c \in {"c", "C"} -> 12 [] c \in {"d", "D"} -> 13
      [] c \in {"e", "E"} -> 14 [] c \in {"f", "F"} -> 15

RECURSIVE Pow10(_)
Pow10(k) == IF k <= 0 THEN 1 ELSE 10 * Pow10(k - 1)

\* the digits of `base` among the characters
DigitsOfBase(base) ==
    IF base = 16 THEN XDigit ELSE IF base = 8 THEN OctDigit ELSE Digit

\* the value of the digit characters s[from .. to-1] in `base`
RECURSIVE DigitRun(_, _, _, _)
DigitRun(s, from, to, base) ==
    IF to <= from THEN 0
    ELSE DigitRun(s, from, to - 1, base) * base + DigitVal(At(s, to - 1))

\* the position after an optional sign at position i
SkipSign(s, i) == IF At(s, i) \in {"-", "+"} THEN i + 1 ELSE i

\* the position after an optional decimal point at position i
SkipPoint(s, i) == IF At(s, i) = "." THEN i + 1 ELSE i

\* the position after a 0x prefix at position i, which only base 16 accepts
SkipPrefix(s, base, i) ==
    IF base = 16 /\ At(s, i) = "0" /\ At(s, i + 1) \in {"x", "X"} THEN i + 2 ELSE i

Negate(neg, v) == IF neg THEN 0 - v ELSE v

\* the value of the run of digits of `base` that starts at position j
ReadDigits(s, base, j) == DigitRun(s, j, SkipWhile(s, j, DigitsOfBase(base)), base)

\* the signed number that starts at position w, the first character after whitespace
ReadIntAt(str, base, w) ==
    Negate(At(str, w) = "-", ReadDigits(str, base, SkipPrefix(str, base, SkipSign(str, w))))

\* bigint ret = 0; std::istringstream istr(str); istr >> [std::hex | std::oct] >> ret;
\* (whitespace is skipped, a sign and, in base 16, a 0x prefix are accepted, the
\* digits of the base are read up to the first other character; with no digit the
\* extraction fails and ret keeps its 0)
ReadInt(str, base) == ReadIntAt(str, base, SkipWhile(str, 0, Space))

\* a decimal mantissa digits [. digits]: integer digits in i..ie-1, fraction digits
\* in fs..fe-1; `mant` is its digits read as one integer, `scale` the number of
\* fraction digits
MantissaOf(s, i, ie, fs, fe) ==
    [has |-> (ie > i) \/ (fe > fs),
     mant |-> DigitRun(s, i, ie, 10) * Pow10(fe - fs) + DigitRun(s, fs, fe, 10),
     scale |-> fe - fs,
     end |-> fe]

MantissaFraction(s, i, ie, fs) == MantissaOf(s, i, ie, fs, SkipWhile(s, fs, Digit))

MantissaPoint(s, i, ie) == MantissaFraction(s, i, ie, SkipPoint(s, ie))

Mantissa(s, i) == MantissaPoint(s, i, SkipWhile(s, i, Digit))

\* an exponent e|E [sign] digits whose letter is at position fe and whose digits
\* are in xs..xe-1
ExponentOf(s, fe, xs, xe) ==
    [has |-> xe > xs,
     exp |-> Negate(At(s, fe + 1) = "-", DigitRun(s, xs, xe, 10))]

ExponentDigits(s, fe, xs) == ExponentOf(s, fe, xs, SkipWhile(s, xs, Digit))

Exponent(s, fe) == ExponentDigits(s, fe, SkipSign(s, fe + 1))

\* strtod takes a 0x prefix followed by a hexadecimal digit (C99)
AtofHex(str, i) ==
    /\ At(str, i) = "0"
    /\ At(str, i + 1) \in {"x", "X"}
    /\ \/ At(str, i + 2) \in XDigit
       \/ At(str, i + 2) = "." /\ At(str, i + 3) \in XDigit

\* mantissa m times ten to the power exp, truncated toward zero
AtofScaled(m, shift) ==
    IF ~m.has THEN 0
    ELSE IF shift >= 0 THEN m.mant * Pow10(shift)
    ELSE m.mant \div Pow10(0 - shift)

\* the exponent counts only when digits follow its letter
AtofExponent(str, m, x) == IF At(str, m.end) \in {"e", "E"} /\ x.has THEN x.exp ELSE 0

AtofDecimal(str, m) ==
    AtofScaled(m, AtofExponent(str, m, Exponent(str, m.end)) - m.scale)

AtofMagnitude(str, i) ==
    IF AtofHex(str, i) THEN ReadDigits(str, 16, i + 2)
    ELSE AtofDecimal(str, Mantissa(str, i))

AtofAt(str, w) == Negate(At(str, w) = "-", AtofMagnitude(str, SkipSign(str, w)))

\* static_cast<bigint>(std::atof(str.c_str())): strtod reads an optional sign and
\* either a decimal mantissa with an optional exponent or (C99) a 0x hexadecimal
\* mantissa; the cast truncates toward zero.  The binary exponent of a hexadecimal
\* floating constant ('p') is not modelled.
AtofTrunc(str) == AtofAt(str, SkipWhile(str, 0, Space))

\* toLongNumber whose octal branch reads the digits after the sign and drops the sign
toLongNumberOctMagnitude(str) ==
    IF isHex(str) THEN ReadInt(str, 16)
    ELSE IF isOct(str)
         THEN (LET v == ReadInt(str, 8) IN IF v < 0 THEN 0 - v ELSE v)
    ELSE IF Contains(str, <<"e">>) \/ Contains(str, <<"E">>) THEN AtofTrunc(str)
    ELSE ReadInt(str, 10)

toLongNumber(str) ==
    IF isHex(str) THEN ReadInt(str, 16)
    ELSE IF isOct(str) THEN ReadInt(str, 8)
    ELSE IF Contains(str, <<"e">>) \/ Contains(str, <<"E">>) THEN AtofTrunc(str)
    ELSE ReadInt(str, 10)

(***************************************************************************)
(* double values.  A finite double is a sign and a magnitude num/den in    *)
(* lowest terms (so that -0.0 and +0.0 differ); the tokens of the model    *)
(* are too short for the binary rounding of a double to reach the six      *)
(* significant digits the formatter prints.                                *)
(***************************************************************************)
RECURSIVE GCD(_, _)
GCD(a, b) == IF b = 0 THEN a ELSE GCD(b, a % b)

Fin(neg, num, den) ==
    LET g == GCD(num, den)
    IN [k |-> "fin", neg |-> neg, num |-> num \div g, den |-> den \div g]

Inf(neg) == [k |-> "inf", neg |-> neg, num |-> 1, den |-> 0]

\* the NaN an invalid operation produces (sign bit set, as SSE2 does)
NaN == [k |-> "nan", neg |-> TRUE, num |-> 0, den |-> 0]

PosZero == Fin(FALSE, 0, 1)

\* static_cast<double>(bigint)
FromBigint(v) == IF v < 0 THEN Fin(TRUE, 0 - v, 1) ELSE Fin(FALSE, v, 1)

IsZero(x) == x.k = "fin" /\ x.num = 0

DNeg(x) == [x EXCEPT !.neg = ~x.neg]

\* x + y
DAdd(x, y) ==
    IF x.k = "nan" THEN x
    ELSE IF y.k = "nan" THEN y
    ELSE IF x.k = "inf" THEN (IF y.k = "inf" /\ y.neg # x.neg THEN NaN ELSE x)
    ELSE IF y.k = "inf" THEN y
    ELSE IF x.neg = y.neg THEN Fin(x.neg, x.num * y.den + y.num * x.den, x.den * y.den)
    ELSE LET a == x.num * y.den
             b == y.num * x.den
         IN IF a = b THEN PosZero
            ELSE IF a > b THEN Fin(x.neg, a - b, x.den * y.den)
            ELSE Fin(y.neg, b - a, x.den * y.den)

\* x - y
DSub(x, y) == IF y.k = "nan" THEN (IF x.k = "nan" THEN x ELSE y) ELSE DAdd(x, DNeg(y))

\* x * y
DMul(x, y) ==
    IF x.k = "nan" THEN x
    ELSE IF y.k = "nan" THEN y
    ELSE IF x.k = "inf" \/ y.k = "inf"
         THEN (IF IsZero(x) \/ IsZero(y) THEN NaN ELSE Inf(x.neg # y.neg))
    ELSE Fin(x.neg # y.neg, x.num * y.num, x.den * y.den)

\* x / y
DDiv(x, y) ==
    IF x.k = "nan" THEN x
    ELSE IF y.k = "nan" THEN y
    ELSE IF x.k = "inf" THEN (IF y.k = "inf" THEN NaN ELSE Inf(x.neg # y.neg))
    ELSE IF y.k = "inf" THEN Fin(x.neg # y.neg, 0, 1)
    ELSE IF IsZero(y) THEN (IF IsZero(x) THEN NaN ELSE Inf(x.neg # y.neg))
    ELSE Fin(x.neg # y.neg, x.num * y.den, x.den * y.num)

(***************************************************************************)
(* Numeric converter: the floating path.                                   *)
(***************************************************************************)
\* what the indeterminate `double ret` may hold
UninitDoubles == {PosZero, Fin(FALSE, 3, 2)}

\* double ret; std::istringstream istr(str); istr >> ret;
\* DoubleText is the extraction, ReadDouble the value left in ret: num_get collects [sign] digits [. digits] [e|E [sign] digits] (the exponent only
\* after a mantissa digit) and hands it to strtod, which must consume all of it.
\* When nothing is extracted (no character after the whitespace, or a text strtod
\* does not accept) ret is left as it was in C++98 and set to 0 by a C++11 library:
\* the indeterminate value `uninit` stands for both.
DoubleTextOf(str, w, m, sci, x) ==
    [ok |-> m.has /\ (sci => x.has),
     neg |-> At(str, w) = "-",
     mant |-> m.mant,
     shift |-> (IF sci THEN x.exp ELSE 0) - m.scale]

DoubleTextMantissa(str, w, m) ==
    DoubleTextOf(str, w, m, m.has /\ At(str, m.end) \in {"e", "E"}, Exponent(str, m.end))

DoubleTextAt(str, w) == DoubleTextMantissa(str, w, Mantissa(str, SkipSign(str, w)))

DoubleText(str) == DoubleTextAt(str, SkipWhile(str, 0, Space))

ReadDoubleOf(t) ==
    IF ~t.ok THEN uninit
    ELSE IF t.shift >= 0 THEN Fin(t.neg, t.mant * Pow10(t.shift), 1)
    ELSE Fin(t.neg, t.mant, Pow10(0 - t.shift))

ReadDouble(str) == ReadDoubleOf(DoubleText(str))

isNullValue(str) ==
    str \in { <<"-", "0">>, <<"0">>, <<"+", "0">>,
              <<"-", "0", ".", "0">>, <<"0", ".", "0">>, <<"+", "0", ".", "0">>,
              <<"-", "0", ".">>, <<"+", "0", ".">>,
              <<"-", "0", "E", "-", "0", "0">>, <<"-", "0", "E", "+", "0", "0">>,
              <<"+", "0", "E", "+", "0", "0">>, <<"+", "0", "E", "-", "0", "0">>,
              <<"-", "0", "e", "-", "0", "0">>, <<"-", "0", "e", "+", "0", "0">>,
              <<"+", "0", "e", "+", "0", "0">>, <<"+", "0", "e", "-", "0", "0">>,
              <<"-", "0", "E", "-", "0">> }

toDoubleNumber(str) ==
    IF isHex(str) THEN FromBigint(toLongNumber(str))
    ELSE IF isNullValue(str) THEN PosZero
    ELSE ReadDouble(str)

\* toDoubleNumber(str) returns the indeterminate value
ReadsUninit(str) == ~isHex(str) /\ ~isNullValue(str) /\ ~DoubleText(str).ok

\* the values `ret` may hold where a call with these operands reads it
UninitFor(a, b) ==
    IF ReadsUninit(a) \/ ReadsUninit(b) THEN UninitDoubles ELSE {PosZero}

(***************************************************************************)
(* Canonical formatter (MathLib::toString<T>, lib/mathlib.h).              *)
(***************************************************************************)
DigitChar(d) == <<"0", "1", "2", "3", "4", "5", "6", "7", "8", "9">>[d + 1]

\* the decimal digits of a natural number, most significant first
RECURSIVE NatText(_)
NatText(v) == IF v < 10 THEN <<DigitChar(v)>> ELSE Append(NatText(v \div 10), DigitChar(v % 10))

\* toString<bigint>: the base-10 digits, with a leading '-' for a negative value
toStringBigint(v) == IF v < 0 THEN <<"-">> \o NatText(0 - v) ELSE NatText(v)

\* the decimal exponent of num/den > 0: the X with 10^X <= num/den < 10^(X+1)
RECURSIVE Exp10(_, _)
Exp10(num, den) ==
    IF num >= 10 * den THEN Exp10(num, 10 * den) + 1
    ELSE IF num < den THEN Exp10(10 * num, den) - 1
    ELSE 0

\* long division: `steps` more decimal digits of (10 * q + r/den)
RECURSIVE DivDigits(_, _, _, _)
DivDigits(q, r, den, steps) ==
    IF steps = 0 THEN [q |-> q, r |-> r]
    ELSE DivDigits(10 * q + (10 * r) \div den, (10 * r) % den, den, steps - 1)

RECURSIVE StripZeros(_)
StripZeros(t) ==
    IF Len(t) > 1 /\ t[Len(t)] = "0" THEN StripZeros(SubSeq(t, 1, Len(t) - 1)) ELSE t

Zeros(k) == [i \in 1..k |-> "0"]

\* significant digits `sig` and decimal exponent X as "%g" writes them: exponent
\* notation when X is below -4 or at least 6
FormatText(X, ax, sig) ==
    IF X < 0 - 4 \/ X >= 6
    THEN <<sig[1]>>
         \o (IF Len(sig) > 1 THEN <<".">> \o SubSeq(sig, 2, Len(sig)) ELSE <<>>)
         \o <<"e", IF X < 0 THEN "-" ELSE "+">>
         \o (IF ax < 10 THEN <<"0">> ELSE <<>>) \o NatText(ax)
    ELSE IF X >= 0
    THEN (IF Len(sig) <= X + 1
          THEN sig \o Zeros(X + 1 - Len(sig))
          ELSE SubSeq(sig, 1, X + 1) \o <<".">> \o SubSeq(sig, X + 2, Len(sig)))
    ELSE <<"0", ".">> \o Zeros(0 - X - 1) \o sig

FormatExponent(X, sig) == FormatText(X, IF X < 0 THEN 0 - X ELSE X, sig)

\* rounding up may carry into a seventh digit
FormatCarry(X0, S0) ==
    FormatExponent(IF S0 = 1000000 THEN X0 + 1 ELSE X0,
                   StripZeros(NatText(IF S0 = 1000000 THEN 100000 ELSE S0)))

\* round to nearest, ties to even
FormatRound(X0, D, dv) ==
    FormatCarry(X0, IF (2 * dv.r > D) \/ (2 * dv.r = D /\ dv.q % 2 = 1)
                    THEN dv.q + 1 ELSE dv.q)

FormatDigits(X0, N, D) == FormatRound(X0, D, DivDigits(N \div D, N % D, D, 5))

FormatScaled(num, den, X0) ==
    FormatDigits(X0, IF X0 < 0 THEN num * Pow10(0 - X0) ELSE num,
                     IF X0 > 0 THEN den * Pow10(X0) ELSE den)

\* the text of a finite value num/den > 0 under "%g" with precision 6: six
\* significant digits, rounded to nearest (ties to even), trailing zeros removed,
\* exponent notation when the decimal exponent is below -4 or at least 6
FormatG(num, den) == FormatScaled(num, den, Exp10(num, den))

\* toString<double>: std::ostringstream result; result << d; (the stream's default
\* precision of 6 significant digits)
toStringDouble(d) ==
    (IF d.neg THEN <<"-">> ELSE <<>>)
    \o (CASE d.k = "nan" -> <<"n", "a", "n">>
          [] d.k = "inf" -> <<"i", "n", "f">>
          [] OTHER -> IF d.num = 0 THEN <<"0">> ELSE FormatG(d.num, d.den))

\* every exponent written in the token is at most MaxExp (the values the model
\* computes with stay within range)
ExpDigitsOK(s) ==
    \A i \in 0..(Len(s) - 1) :
        At(s, i) \in {"e", "E"} =>
            LET xs == IF At(s, i + 1) \in {"-", "+"} THEN i + 2 ELSE i + 1
            IN DigitRun(s, xs, SkipWhile(s, xs, Digit), 10) <= MaxExp

InRange(s) == isHex(s) \/ ExpDigitsOK(s)

(***************************************************************************)
(* Arithmetic evaluator.  A call returns a text, ends in the fault of an   *)
(* integer division by zero, or throws InternalError.                      *)
(***************************************************************************)
Text(t) == [kind |-> "text", text |-> t]

\* bigint / 0: undefined behaviour, the trap of the integer divide instruction
Fault == [kind |-> "fault"]

InternalError == [kind |-> "InternalError"]

\* the quotient of C++ integer division (truncated toward zero), b # 0
Quot(a, b) ==
    LET q == (IF a < 0 THEN 0 - a ELSE a) \div (IF b < 0 THEN 0 - b ELSE b)
    IN IF (a < 0) # (b < 0) THEN 0 - q ELSE q

\* add that takes the integer path when either operand is an integer
addEitherInt(a, b) ==
    IF isInt(a) \/ isInt(b)
    THEN Text(toStringBigint(toLongNumber(a) + toLongNumber(b)))
    ELSE Text(toStringDouble(DAdd(toDoubleNumber(a), toDoubleNumber(b))))

add(a, b) ==
    IF isInt(a) /\ isInt(b)
    THEN Text(toStringBigint(toLongNumber(a) + toLongNumber(b)))
    ELSE Text(toStringDouble(DAdd(toDoubleNumber(a), toDoubleNumber(b))))

subtract(a, b) ==
    IF isInt(a) /\ isInt(b)
    THEN Text(toStringBigint(toLongNumber(a) - toLongNumber(b)))
    ELSE Text(toStringDouble(DSub(toDoubleNumber(a), toDoubleNumber(b))))

divide(a, b) ==
    IF isInt(a) /\ isInt(b)
    THEN (IF toLongNumber(b) = 0 THEN Fault
          ELSE Text(toStringBigint(Quot(toLongNumber(a), toLongNumber(b)))))
    ELSE Text(toStringDouble(DDiv(toDoubleNumber(a), toDoubleNumber(b))))

multiply(a, b) ==
    IF isInt(a) /\ isInt(b)
    THEN Text(toStringBigint(toLongNumber(a) * toLongNumber(b)))
    ELSE Text(toStringDouble(DMul(toDoubleNumber(a), toDoubleNumber(b))))

\* calculate that falls through to the `return "0"` after the switch
calculateReturnsZero(a, b, act) ==
    CASE act = "+" -> add(a, b)
      [] act = "-" -> subtract(a, b)
      [] act = "*" -> multiply(a, b)
      [] act = "/" -> divide(a, b)
      [] OTHER -> Text(<<"0">>)

calculate(a, b, act) ==
    CASE act = "+" -> add(a, b)
      [] act = "-" -> subtract(a, b)
      [] act = "*" -> multiply(a, b)
      [] act = "/" -> divide(a, b)
      [] OTHER -> InternalError

\* the text the engine produces for one literal under its representation-selection
\* policy: the integer rendering when isInt, the float rendering otherwise
Canonical(s) ==
    IF isInt(s) THEN toStringBigint(toLongNumber(s))
    ELSE toStringDouble(toDoubleNumber(s))

(***************************************************************************)
(* Comparison evaluator.                                                   *)
(***************************************************************************)
isEqual(a, b) ==
    toStringDouble(toDoubleNumber(a)) = toStringDouble(toDoubleNumber(b))

isNotEqual(a, b) == ~isEqual(a, b)

(***************************************************************************)
(* Inputs.                                                                 *)
(***************************************************************************)
\* characters of the tokens of the one-token specifications
Alphabet == {" ", "-", "+", "0", "1", "8", "x", "E", "e", ".", "u"}

Strings(A, len) == UNION {[1..k -> A] : k \in 0..len}

Tokens == Strings(Alphabet, MaxLen)

Classify ==
    /\ pc = "input"
    /\ out' = [op |-> "classify",
               isHex |-> isHex(first), isOct |-> isOct(first),
               isFloat |-> isFloat(first), isInt |-> isInt(first),
               isNegative |-> isNegative(first)]
    /\ pc' = "done"
    /\ UNCHANGED <<first, second, action, uninit, n, Mode, bStartsWithDigit>>

\* characters of the operands of the two-token specification
PairAlphabet == {"-", "0", "1", ".", "E"}

PairTokens == {t \in Strings(PairAlphabet, MaxPairLen) : InRange(t)}

\* the operator characters handed to calculate
ActionChars == {"+", "-", "*", "/", "%"}

Add ==
    /\ pc = "input"
    /\ out' = [op |-> "add", result |-> add(first, second)]
    /\ pc' = "done"
    /\ UNCHANGED <<first, second, action, uninit, n, Mode, bStartsWithDigit>>

Subtract ==
    /\ pc = "input"
    /\ out' = [op |-> "subtract", result |-> subtract(first, second)]
    /\ pc' = "done"
    /\ UNCHANGED <<first, second, action, uninit, n, Mode, bStartsWithDigit>>

Multiply ==
    /\ pc = "input"
    /\ out' = [op |-> "multiply", result |-> multiply(first, second)]
    /\ pc' = "done"
    /\ UNCHANGED <<first, second, action, uninit, n, Mode, bStartsWithDigit>>

Divide ==
    /\ pc = "input"
    /\ out' = [op |-> "divide", result |-> divide(first, second)]
    /\ pc' = "done"
    /\ UNCHANGED <<first, second, action, uninit, n, Mode, bStartsWithDigit>>

Calculate ==
    /\ pc = "input"
    /\ \E a \in ActionChars :
          /\ action' = a
          /\ out' = [op |-> "calculate", result |-> calculate(first, second, a)]
    /\ pc' = "done"
    /\ UNCHANGED <<first, second, uninit, n, Mode, bStartsWithDigit>>

InitCalc ==
    /\ first \in PairTokens
    /\ second \in PairTokens
    /\ action = "none"
    /\ uninit \in UninitFor(first, second)
    /\ pc = "input"
    /\ out = [op |-> "none"]
    /\ n = 0
    /\ Mode = "eDefault"
    /\ bStartsWithDigit = FALSE

NextCalc == Add \/ Subtract \/ Multiply \/ Divide \/ Calculate

SpecCalc == InitCalc /\ [][NextCalc]_vars

(***************************************************************************)
(* MathLib::isInt, statement by statement.  pc names the statement about   *)
(* to run; every read of the token is the read of s[n].                    *)
(***************************************************************************)
Return(b) ==
    /\ out' = [op |-> "isInt", ret |-> b]
    /\ pc' = "done"

\* lines 108-110: the prechecks
Precheck ==
    /\ pc = "precheck"
    /\ IF Contains(first, <<".">>) THEN Return(FALSE)
       ELSE IF Contains(first, <<"E", "-">>) \/ Contains(first, <<"e", "-">>)
       THEN Return(FALSE)
       ELSE pc' = "skipws" /\ out' = out
    /\ UNCHANGED <<first, second, action, uninit, n, Mode, bStartsWithDigit>>

\* line 128: while (std::isspace(s[n])) ++n;
EatWhitespace ==
    /\ pc = "skipws"
    /\ IF At(first, n) \in Space THEN n' = n + 1 /\ pc' = pc
       ELSE n' = n /\ pc' = "mode"
    /\ UNCHANGED <<first, second, action, uninit, out, Mode, bStartsWithDigit>>

\* lines 131-137: determine type
DetermineType ==
    /\ pc = "mode"
    /\ Mode' = isIntMode(first)
    /\ pc' = "sign"
    /\ UNCHANGED <<first, second, action, uninit, out, n, bStartsWithDigit>>

\* line 140: check sign, then enter the branch of the mode
CheckSign ==
    /\ pc = "sign"
    /\ n' = IF At(first, n) \in {"-", "+"} THEN n + 1 ELSE n
    /\ pc' = CASE Mode = "eScientific" -> "sciDigits"
               [] Mode = "eHex" -> "hex0"
               [] Mode = "eOctal" -> "oct0"
               [] OTHER -> "defDigits"
    /\ UNCHANGED <<first, second, action, uninit, out, Mode, bStartsWithDigit>>

\* line 145: while (std::isdigit(s[n])) ++n;
SciDigits ==
    /\ pc = "sciDigits"
    /\ IF At(first, n) \in Digit THEN n' = n + 1 /\ pc' = pc
       ELSE n' = n /\ pc' = "sciE"
    /\ UNCHANGED <<first, second, action, uninit, out, Mode, bStartsWithDigit>>

\* lines 148-149: if (std::tolower(s[n]) == 'e') ++n;
SciE ==
    /\ pc = "sciE"
    /\ IF At(first, n) \in {"e", "E"} THEN n' = n + 1 /\ pc' = "sciPlus"
       ELSE n' = n /\ pc' = "trail"
    /\ UNCHANGED <<first, second, action, uninit, out, Mode, bStartsWithDigit>>

\* line 151: if (s[n] == '+') ++n;
SciPlus ==
    /\ pc = "sciPlus"
    /\ n' = IF At(first, n) = "+" THEN n + 1 ELSE n
    /\ pc' = "sciMinus"
    /\ UNCHANGED <<first, second, action, uninit, out, Mode, bStartsWithDigit>>

\* line 153: if (s[n] == '-') return false;
SciMinus ==
    /\ pc = "sciMinus"
    /\ IF At(first, n) = "-" THEN Return(FALSE)
       ELSE pc' = "sciExp" /\ out' = out
    /\ UNCHANGED <<first, second, action, uninit, n, Mode, bStartsWithDigit>>

\* line 155: while (std::isdigit(s[n])) ++n;
SciExp ==
    /\ pc = "sciExp"
    /\ IF At(first, n) \in Digit THEN n' = n + 1 /\ pc' = pc
       ELSE n' = n /\ pc' = "trail"
    /\ UNCHANGED <<first, second, action, uninit, out, Mode, bStartsWithDigit>>

\* line 160: ++n; // 0
Hex0 ==
    /\ pc = "hex0"
    /\ n' = n + 1
    /\ pc' = "hexX"
    /\ UNCHANGED <<first, second, action, uninit, out, Mode, bStartsWithDigit>>

\* line 161: ++n; // x
HexX ==
    /\ pc = "hexX"
    /\ n' = n + 1
    /\ pc' = "hexDigits"
    /\ UNCHANGED <<first, second, action, uninit, out, Mode, bStartsWithDigit>>

\* lines 162-163: while (std::isxdigit(s[n])) ++n;
HexDigits ==
    /\ pc = "hexDigits"
    /\ IF At(first, n) \in XDigit THEN n' = n + 1 /\ pc' = pc
       ELSE n' = n /\ pc' = "suffix"
    /\ UNCHANGED <<first, second, action, uninit, out, Mode, bStartsWithDigit>>

\* line 169: ++n; // 0
Oct0 ==
    /\ pc = "oct0"
    /\ n' = n + 1
    /\ pc' = "octDigits"
    /\ UNCHANGED <<first, second, action, uninit, out, Mode, bStartsWithDigit>>

\* lines 170-171: while (isOctalDigit(s[n])) ++n;
OctDigits ==
    /\ pc = "octDigits"
    /\ IF isOctalDigit(At(first, n)) THEN n' = n + 1 /\ pc' = pc
       ELSE n' = n /\ pc' = "suffix"
    /\ UNCHANGED <<first, second, action, uninit, out, Mode, bStartsWithDigit>>

\* lines 177-180: while (std::isdigit(s[n])) { bStartsWithDigit=true; ++n; }
DefDigits ==
    /\ pc = "defDigits"
    /\ IF At(first, n) \in Digit
       THEN n' = n + 1 /\ bStartsWithDigit' = TRUE /\ pc' = pc
       ELSE n' = n /\ bStartsWithDigit' = bStartsWithDigit /\ pc' = "suffix"
    /\ UNCHANGED <<first, second, action, uninit, out, Mode>>

\* lines 165, 173, 182: while (std::tolower(s[n]) == 'u' || std::tolower(s[n]) == 'l') ++n;
Suffix ==
    /\ pc = "suffix"
    /\ IF At(first, n) \in SuffixUL THEN n' = n + 1 /\ pc' = pc
       ELSE n' = n /\ pc' = IF Mode = "eDefault" THEN "defCheck" ELSE "trail"
    /\ UNCHANGED <<first, second, action, uninit, out, Mode, bStartsWithDigit>>

\* lines 184-185: if (!bStartsWithDigit) return false;
DefCheck ==
    /\ pc = "defCheck"
    /\ IF ~bStartsWithDigit THEN Return(FALSE)
       ELSE pc' = "trail" /\ out' = out
    /\ UNCHANGED <<first, second, action, uninit, n, Mode, bStartsWithDigit>>

\* lines 188-189: while (std::isspace(s[n])) ++n;
TrailingWhitespace ==
    /\ pc = "trail"
    /\ IF At(first, n) \in Space THEN n' = n + 1 /\ pc' = pc
       ELSE n' = n /\ pc' = "return"
    /\ UNCHANGED <<first, second, action, uninit, out, Mode, bStartsWithDigit>>

\* line 193: return(n >= s.length());
ReturnAtEnd ==
    /\ pc = "return"
    /\ Return(n >= Len(first))
    /\ UNCHANGED <<first, second, action, uninit, n, Mode, bStartsWithDigit>>

InitScan ==
    /\ first \in Tokens
    /\ second = <<>>
    /\ action = "none"
    /\ uninit = PosZero
    /\ pc = "precheck"
    /\ out = [op |-> "none"]
    /\ n = 0
    /\ Mode = "eDefault"
    /\ bStartsWithDigit = FALSE

NextScan ==
    \/ Precheck \/ EatWhitespace \/ DetermineType \/ CheckSign
    \/ SciDigits \/ SciE \/ SciPlus \/ SciMinus \/ SciExp
    \/ Hex0 \/ HexX \/ HexDigits
    \/ Oct0 \/ OctDigits
    \/ DefDigits \/ Suffix \/ DefCheck
    \/ TrailingWhitespace \/ ReturnAtEnd

\* the scan is straight-line code: it keeps running until it returns
SpecScan == InitScan /\ [][NextScan]_vars /\ WF_vars(NextScan)

(***************************************************************************)
(* Spellings of zero: [sign] 0+ [. 0*] [exponent].                         *)
(***************************************************************************)
ZeroSigns == {<<>>, <<"-">>, <<"+">>}

ZeroFractions == {<<>>} \cup {<<".">> \o Zeros(k) : k \in 0..MaxZeros}

ZeroExponents == {<<>>, <<"E", "0">>, <<"E", "-", "0", "0">>, <<"e", "+", "1">>}

ZeroTokens ==
    {sg \o Zeros(k) \o fr \o ex :
        sg \in ZeroSigns, k \in 1..MaxZeros, fr \in ZeroFractions, ex \in ZeroExponents}

Equal ==
    /\ pc = "input"
    /\ out' = [op |-> "isEqual", eq |-> isEqual(first, second),
               ne |-> isNotEqual(first, second)]
    /\ pc' = "done"
    /\ UNCHANGED <<first, second, action, uninit, n, Mode, bStartsWithDigit>>

InitZero ==
    /\ first \in ZeroTokens
    /\ second \in ZeroTokens
    /\ action = "none"
    /\ uninit \in UninitFor(first, second)
    /\ pc = "input"
    /\ out = [op |-> "none"]
    /\ n = 0
    /\ Mode = "eDefault"
    /\ bStartsWithDigit = FALSE

NextZero == Equal

SpecZero == InitZero /\ [][NextZero]_vars

Init ==
    /\ first \in Tokens
    /\ second = <<>>
    /\ action = "none"
    /\ uninit \in UninitFor(first, first)
    /\ pc = "input"
    /\ out = [op |-> "none"]
    /\ n = 0
    /\ Mode = "eDefault"
    /\ bStartsWithDigit = FALSE

\* the integer path of the engine: toLongNumber and its rendering, for a token that
\* classifies as an integer
ToLong ==
    /\ pc = "input"
    /\ isInt(first)
    /\ InRange(first)
    /\ out' = [op |-> "toLong", value |-> toLongNumber(first),
               text |-> toStringBigint(toLongNumber(first))]
    /\ pc' = "done"
    /\ UNCHANGED <<first, second, action, uninit, n, Mode, bStartsWithDigit>>

\* the floating path of the engine: toDoubleNumber and its rendering
ToDouble ==
    /\ pc = "input"
    /\ InRange(first)
    /\ out' = [op |-> "toDouble", value |-> toDoubleNumber(first),
               text |-> toStringDouble(toDoubleNumber(first))]
    /\ pc' = "done"
    /\ UNCHANGED <<first, second, action, uninit, n, Mode, bStartsWithDigit>>

\* parse and format one literal ...
Format ==
    /\ pc = "input"
    /\ InRange(first)
    /\ out' = [op |-> "format", text |-> Canonical(first)]
    /\ pc' = "formatted"
    /\ UNCHANGED <<first, second, action, uninit, n, Mode, bStartsWithDigit>>

\* ... and hand the text to the engine again, as the next operation does
Reformat ==
    /\ pc = "formatted"
    /\ out' = [op |-> "reformat", prev |-> out.text, text |-> Canonical(out.text)]
    /\ pc' = "done"
    /\ UNCHANGED <<first, second, action, uninit, n, Mode, bStartsWithDigit>>

\* runs of whitespace a tokenizer may leave in front of a literal
WsRuns == {<<" ">>, <<"\t">>, <<" ", " ">>}

\* the integer path applied to a token and to the same token after whitespace
Padded ==
    /\ pc = "input"
    /\ isInt(first)
    /\ InRange(first)
    /\ \E w \in WsRuns :
          out' = [op |-> "padded", ws |-> w,
                  isInt |-> isInt(w \o first),
                  value |-> toLongNumber(w \o first),
                  plain |-> toLongNumber(first)]
    /\ pc' = "done"
    /\ UNCHANGED <<first, second, action, uninit, n, Mode, bStartsWithDigit>>

Next == Classify \/ ToLong \/ ToDouble \/ Format \/ Reformat \/ Padded

Spec == Init /\ [][Next]_vars

(***************************************************************************)
(* Properties.                                                             *)
(***************************************************************************)
Binary == {"add", "subtract", "multiply", "divide"}

\* C1: each of add, subtract, multiply and divide returns the integer rendering of
\* toLongNumber(first) op toLongNumber(second) when isInt holds of both operands and
\* the float rendering of toDoubleNumber(first) op toDoubleNumber(second) otherwise;
\* the choice depends on the two operands of the call alone.  (The integer quotient
\* by zero is no value: the call faults.)
C1_RepresentationPolicy ==
    out.op \in Binary =>
        LET a == toLongNumber(first)
            b == toLongNumber(second)
            x == toDoubleNumber(first)
            y == toDoubleNumber(second)
        IN IF isInt(first) /\ isInt(second)
           THEN CASE out.op = "add" -> out.result = Text(toStringBigint(a + b))
                  [] out.op = "subtract" -> out.result = Text(toStringBigint(a - b))
                  [] out.op = "multiply" -> out.result = Text(toStringBigint(a * b))
                  [] OTHER -> IF b = 0 THEN out.result = Fault
                              ELSE out.result = Text(toStringBigint(Quot(a, b)))
           ELSE CASE out.op = "add" -> out.result = Text(toStringDouble(DAdd(x, y)))
                  [] out.op = "subtract" -> out.result = Text(toStringDouble(DSub(x, y)))
                  [] out.op = "multiply" -> out.result = Text(toStringDouble(DMul(x, y)))
                  [] OTHER -> out.result = Text(toStringDouble(DDiv(x, y)))

\* add("10", "10") has returned "20" on the integer path
C1_Witness ==
    /\ out.op = "add"
    /\ first = <<"1", "0">>
    /\ second = <<"1", "0">>
    /\ out.result = Text(<<"2", "0">>)

\* C2: calculate returns what add, subtract, multiply, divide return for '+', '-',
\* '*', '/' and throws InternalError, returning no text, for every other character.
C2_CalculateDispatch ==
    out.op = "calculate" =>
        CASE action = "+" -> out.result = add(first, second)
          [] action = "-" -> out.result = subtract(first, second)
          [] action = "*" -> out.result = multiply(first, second)
          [] action = "/" -> out.result = divide(first, second)
          [] OTHER -> out.result = InternalError /\ out.result.kind # "text"

\* calculate("1", "1", '%') has thrown
C2_Witness ==
    /\ out.op = "calculate"
    /\ action = "%"
    /\ first = <<"1">>
    /\ second = <<"1">>
    /\ out.result = InternalError

\* a base-10 digit string with an optional leading '-'
IsDecimalText(t) ==
    LET i == IF At(t, 0) = "-" THEN 1 ELSE 0
    IN Len(t) > i /\ \A k \in i..(Len(t) - 1) : At(t, k) \in Digit

\* C3 as claimed: for a token with isInt, the rendering of toLongNumber is a digit
\* string that begins with '-' exactly when isNegative holds of the token.
C3_SignMatchesIsNegative ==
    out.op = "toLong" =>
        /\ IsDecimalText(out.text)
        /\ (At(out.text, 0) = "-") <=> isNegative(first)

\* C3 as amended: the rendering begins with '-' exactly when isNegative holds of the
\* token and its integer value is not zero; a zero value renders as "0" whatever the
\* sign of the token.
C3_SignMatchesUnlessZero ==
    out.op = "toLong" =>
        /\ IsDecimalText(out.text)
        /\ (At(out.text, 0) = "-") <=> (isNegative(first) /\ out.value # 0)
        /\ out.value = 0 => out.text = <<"0">>

\* the token "-0" has been converted and rendered as "0"
C3_Witness ==
    /\ out.op = "toLong"
    /\ first = <<"-", "0">>
    /\ isNegative(first)
    /\ out.text = <<"0">>

\* [sign] 0x|0X hex-digits+ [u/l suffix run]
HexForm(s) ==
    LET i == IF At(s, 0) \in {"-", "+"} THEN 1 ELSE 0
        e == SkipWhile(s, i + 2, XDigit)
    IN /\ At(s, i) = "0"
       /\ At(s, i + 1) \in {"x", "X"}
       /\ e > i + 2
       /\ SkipWhile(s, e, SuffixUL) = Len(s)

\* [sign] 0 octal-digits* [u/l suffix run]
OctForm(s) ==
    LET i == IF At(s, 0) \in {"-", "+"} THEN 1 ELSE 0
    IN /\ At(s, i) = "0"
       /\ SkipWhile(s, SkipWhile(s, i + 1, OctDigit), SuffixUL) = Len(s)

\* C4: a well-formed hexadecimal token (isHex) and a well-formed octal token (isOct)
\* is an integer to isInt, whatever its hex digits.
C4_HexOctYieldInteger ==
    (out.op = "classify" /\ ((HexForm(first) /\ out.isHex) \/ (OctForm(first) /\ out.isOct)))
        => out.isInt

\* C5: isOct holds exactly of the tokens that, after one optional sign, start with
\* '0' followed by an octal digit or by the end of the token, and are not isFloat.
C5_IsOctAfterSign ==
    out.op = "classify" =>
        LET i == IF At(first, 0) \in {"-", "+"} THEN 1 ELSE 0
        IN out.isOct <=>
              /\ At(first, i) = "0"
              /\ (i + 1 >= Len(first) \/ isOctalDigit(At(first, i + 1)))
              /\ ~out.isFloat

\* [sign] (digits [. digits*] | . digits) [e|E [sign] digits], the whole token
FloatLiteral(s) ==
    LET i == IF At(s, 0) \in {"-", "+"} THEN 1 ELSE 0
        ie == SkipWhile(s, i, Digit)
        fs == IF At(s, ie) = "." THEN ie + 1 ELSE ie
        fe == SkipWhile(s, fs, Digit)
        xs == IF At(s, fe) \in {"e", "E"}
              THEN (IF At(s, fe + 1) \in {"-", "+"} THEN fe + 2 ELSE fe + 1)
              ELSE fe
        xe == SkipWhile(s, xs, Digit)
    IN /\ (ie > i) \/ (fe > fs)
       /\ xs > fe => xe > xs
       /\ xe = Len(s)

C7_ExactlyOneKind ==
    out.op = "classify" =>
        LET decimal == out.isInt /\ ~out.isHex /\ ~out.isOct
            kinds == {k \in {"hex", "oct", "float", "decimal"} :
                        \/ k = "hex" /\ out.isHex
                        \/ k = "oct" /\ out.isOct
                        \/ k = "float" /\ out.isFloat
                        \/ k = "decimal" /\ decimal}
        IN /\ ~(out.isHex /\ out.isOct)
           /\ ~(out.isHex /\ out.isFloat)
           /\ ~(out.isOct /\ out.isFloat)
           /\ ~(out.isInt /\ out.isFloat)
           /\ (out.isInt \/ out.isFloat) => Cardinality(kinds) = 1

\* the scan position never leaves the token
ScanInToken == 0 <= n /\ n <= Len(first)

\* C8 as claimed: the scan position stays within 0..length(token) at every step and
\* the scan returns true exactly when the position has reached the end of the token.
C8_TrueIffAtEnd ==
    /\ ScanInToken
    /\ pc = "done" => (out.ret \in BOOLEAN /\ (out.ret <=> n = Len(first)))

\* C8 as amended: the scan returns (isInt is total), the position stays within
\* 0..length(token) at every step, and the result is true exactly when the position
\* has reached the end of the token and, in the eDefault mode, a digit was consumed.
C8_TotalInTokenTrueAtEndWithDigit ==
    /\ [](/\ ScanInToken
          /\ pc = "done" =>
                /\ out.ret \in BOOLEAN
                /\ out.ret <=> (n = Len(first) /\ (Mode = "eDefault" => bStartsWithDigit)))
    /\ <>(pc = "done")

\* a scan has ended at the end of its token and returned false
C8_Witness ==
    /\ pc = "done"
    /\ out.op = "isInt"
    /\ n = Len(first)
    /\ ~out.ret

C10_LeadingWhitespaceNeutral ==
    out.op = "padded" => (out.isInt /\ out.value = out.plain)
====
